---- MODULE Spec2Model ----
(***************************************************************************)
(* A model of crisp-vm, an RV32I interpreter: the architectural State      *)
(* (state.rs), the instruction decoder (decode.rs), the executor           *)
(* (instructions.rs) and the machine loop (machine.rs).                    *)
(*                                                                         *)
(* A u32 is the pair <<hi, lo>> of its two 16-bit halves, because TLC's    *)
(* integers are 32-bit signed.  u8 and u16 values are plain naturals.      *)
(***************************************************************************)
EXTENDS Integers, Sequences, FiniteSets, TLC

VARIABLES
    M,                \* the const generic M: usize of State<M>, as <<hi, lo>>
    overflow_checks,  \* the build profile: TRUE when `+` panics on overflow
    state,            \* Machine::state : [pc, registers, memory]
    mode,             \* "idle", "running" (inside Machine::run) or "aborted" (panicked)
    cycles,           \* the local `cycles` of Machine::run
    word,             \* the word under decode (decoder specification)
    last,             \* the last operation performed, with its result
    steps             \* operations performed so far

vars == <<M, overflow_checks, state, mode, cycles, word, last, steps>>

-----------------------------------------------------------------------------
(* Bounds of the model. *)

\* Size of the small memory configuration, in bytes.
MemSize == 16

\* Operations (API calls and loop cycles) in one behaviour.
MaxSteps == 3

-----------------------------------------------------------------------------
(* 32-bit words. *)

\* Let1(a, F) is F(a) with a evaluated once, and Let2 likewise: they bind
\* the value of an argument that the body uses many times.
Let1(a, F(_)) == CHOOSE r \in {F(x) : x \in {a}} : TRUE

Let2(a, b, F(_, _)) == CHOOSE r \in {F(x, y) : x \in {a}, y \in {b}} : TRUE

Half == 2 ^ 16

U32(hi, lo) == <<hi, lo>>

Zero32 == U32(0, 0)

\* u32::MAX
U32_MAX == U32(65535, 65535)

\* A small natural as a u32 (`x as u32` of a u8 or u16).
AsU32(x) == U32(0, x)

\* `w as u16` and `w as u8`: truncation.
AsU16(w) == w[2]

AsU8(w) == w[2] % 256

\* `w as usize` on a 64-bit host: the same number.
AsUsize(w) == w

\* a < b on u32 (and on usize values up to 2^32).
Lt32(a, b) == Let2(a, b, LAMBDA x, y : x[1] < y[1] \/ (x[1] = y[1] /\ x[2] < y[2]))

\* Bit i (0 = least significant) of a u32.
Bit(w, i) == IF i < 16 THEN (w[2] \div (2 ^ i)) % 2 ELSE (w[1] \div (2 ^ (i - 16))) % 2

RECURSIVE BitsVal(_, _, _)
\* The number whose bit j is f[from + j], for j < n.
BitsVal(f, from, n) ==
    IF n = 0 THEN 0 ELSE f[from] + 2 * BitsVal(f, from + 1, n - 1)

\* The u32 whose bit i is f[i].
FromBits(f) == Let1(f, LAMBDA g : U32(BitsVal(g, 16, 16), BitsVal(g, 0, 16)))

\* a.wrapping_add(b)
wrapping_add(a, b) ==
    Let2(a, b, LAMBDA x, y :
        U32((x[1] + y[1] + ((x[2] + y[2]) \div Half)) % Half, (x[2] + y[2]) % Half))

\* Whether a + b exceeds u32::MAX.
AddOverflows(a, b) ==
    Let2(a, b, LAMBDA x, y : x[1] + y[1] + ((x[2] + y[2]) \div Half) >= Half)

\* a >> k and a << k for 0 <= k <= 31, on the two halves.
Shr32(a, k) ==
    Let2(a, k, LAMBDA x, n :
        IF n >= 16 THEN U32(0, x[1] \div (2 ^ (n - 16)))
        ELSE U32(x[1] \div (2 ^ n), (x[2] \div (2 ^ n)) + (x[1] % (2 ^ n)) * (2 ^ (16 - n))))

Shl32(a, k) ==
    Let2(a, k, LAMBDA x, n :
        IF n >= 16 THEN U32((x[2] * (2 ^ (n - 16))) % Half, 0)
        ELSE U32(((x[1] * (2 ^ n)) % Half) + (x[2] \div (2 ^ (16 - n))), (x[2] * (2 ^ n)) % Half))

\* a.wrapping_shl(b), a.wrapping_shr(b): the amount is taken modulo 32.
wrapping_shl(a, b) == Shl32(a, AsU16(b) % 32)

wrapping_shr(a, b) == Shr32(a, AsU16(b) % 32)

\* The bitwise operations on 4-bit digits, as tables.
NibbleBit(x, j) == (x \div (2 ^ j)) % 2

NibbleAnd ==
    [x \in 0..15 |-> [y \in 0..15 |->
        BitsVal([j \in 0..3 |-> NibbleBit(x, j) * NibbleBit(y, j)], 0, 4)]]

NibbleOr ==
    [x \in 0..15 |-> [y \in 0..15 |->
        BitsVal([j \in 0..3 |-> IF NibbleBit(x, j) + NibbleBit(y, j) > 0 THEN 1 ELSE 0], 0, 4)]]

NibbleXor ==
    [x \in 0..15 |-> [y \in 0..15 |->
        BitsVal([j \in 0..3 |-> (NibbleBit(x, j) + NibbleBit(y, j)) % 2], 0, 4)]]

\* A bitwise operation on two 16-bit halves, digit by digit.
Bitwise16(T, x, y) ==
    T[x % 16][y % 16]
    + 16 * T[(x \div 16) % 16][(y \div 16) % 16]
    + 256 * T[(x \div 256) % 16][(y \div 256) % 16]
    + 4096 * T[x \div 4096][y \div 4096]

\* a | b, a & b, a ^ b and !a
Or32(a, b) ==
    Let2(a, b, LAMBDA x, y : U32(Bitwise16(NibbleOr, x[1], y[1]), Bitwise16(NibbleOr, x[2], y[2])))

And32(a, b) ==
    Let2(a, b, LAMBDA x, y : U32(Bitwise16(NibbleAnd, x[1], y[1]), Bitwise16(NibbleAnd, x[2], y[2])))

Xor32(a, b) ==
    Let2(a, b, LAMBDA x, y : U32(Bitwise16(NibbleXor, x[1], y[1]), Bitwise16(NibbleXor, x[2], y[2])))

Not32(a) == Let1(a, LAMBDA x : U32(65535 - x[1], 65535 - x[2]))

\* u32::from_le_bytes([a, b, c, d]) and u16::from_le_bytes([a, b])
u32_from_le_bytes(a, b, c, d) == U32(d * 256 + c, b * 256 + a)

u16_from_le_bytes(a, b) == b * 256 + a

\* val.to_le_bytes() of a u32 and of a u16
u32_to_le_bytes(w) ==
    Let1(w, LAMBDA x : <<x[2] % 256, x[2] \div 256, x[1] % 256, x[1] \div 256>>)

u16_to_le_bytes(h) == Let1(h, LAMBDA x : <<x % 256, x \div 256>>)

-----------------------------------------------------------------------------
(* Results: Ok(value), Err(error) or a panic that aborts the program. *)

Ok(v) == [kind |-> "Ok", val |-> <<v>>]

OkUnit == [kind |-> "Ok", val |-> <<>>]

Err(e) == [kind |-> "Err", val |-> <<e>>]

Panic(why) == [kind |-> "Panic", val |-> <<why>>]

IsOk(r) == r.kind = "Ok"

Val(r) == r.val[1]

-----------------------------------------------------------------------------
(* state.rs *)

\* Length of the `registers` array.
RegistersLen == 31

\* impl Default for State: pc 0, registers zeroed, memory zeroed.  The
\* registers array is a sequence, so slot i of the array is registers[i + 1].
\* The memory array is kept as its non-zero bytes: an address absent from it
\* holds 0.
StateDefault ==
    [pc |-> Zero32, registers |-> [i \in 1..RegistersLen |-> Zero32], memory |-> [a \in {} |-> 0]]

get_pc(st) == st.pc

set_pc(st, value) == [st EXCEPT !.pc = value]

\* self.registers[i]: an index outside the array panics.
RegIndexInBounds(i) == i < RegistersLen

\* A get_r whose x0 is not hardwired: name 0 reads the first register that
\* is stored.
get_r_x0_stored(st, name) ==
    IF name = 0 THEN Ok(st.registers[2])
    ELSE IF name > 31 THEN Err("InvalidRegister")
    ELSE IF ~RegIndexInBounds(name) THEN Panic("index out of bounds")
    ELSE Ok(st.registers[name + 1])

get_r(st, name) ==
    IF name = 0 THEN Ok(Zero32)
    ELSE IF name > 31 THEN Err("InvalidRegister")
    ELSE IF ~RegIndexInBounds(name) THEN Panic("index out of bounds")
    ELSE Ok(st.registers[name + 1])

\* Returns [res, st]: the result and the state left behind.
set_r(st, name, value) ==
    IF name = 0 THEN [res |-> Err("IllegalOperation"), st |-> st]
    ELSE IF name > 31 THEN [res |-> Err("InvalidRegister"), st |-> st]
    ELSE IF ~RegIndexInBounds(name) THEN [res |-> Panic("index out of bounds"), st |-> st]
    ELSE [res |-> OkUnit, st |-> [st EXCEPT !.registers[name + 1] = value]]

\* self.memory[addr as usize] is inside the array.
MemIndexInBounds(addr) == Lt32(AsUsize(addr), M)

\* The byte self.memory[addr] of an in-bounds address.
MemByte(st, addr) == IF addr \in DOMAIN st.memory THEN st.memory[addr] ELSE 0

\* self.memory[addr] = val
MemStore(st, addr, val) ==
    Let2(st.memory, <<addr, val>>, LAMBDA mem, w :
        [st EXCEPT !.memory =
            [a \in (DOMAIN mem \cup {w[1]}) \ (IF w[2] = 0 THEN {w[1]} ELSE {}) |->
                IF a = w[1] THEN w[2] ELSE mem[a]]])

\* base_addr + k with the build's overflow behaviour: a panic when overflow
\* checks are on, the wrapped sum otherwise.
CheckedAdd(a, k) ==
    Let1(a, LAMBDA x :
        IF AddOverflows(x, AsU32(k)) /\ overflow_checks
        THEN Panic("attempt to add with overflow")
        ELSE Ok(wrapping_add(x, AsU32(k))))

get_mem_u8(st, addr) ==
    IF MemIndexInBounds(addr) THEN Ok(MemByte(st, addr)) ELSE Panic("index out of bounds")

\* A result r, then K on its value: the `?` operator on r.
Try(r, K(_)) == Let1(r, LAMBDA x : IF IsOk(x) THEN K(Val(x)) ELSE x)

\* self.get_mem_u8(base_addr + k)?
get_mem_at(st, base_addr, k) ==
    IF k = 0 THEN get_mem_u8(st, base_addr)
    ELSE Try(CheckedAdd(base_addr, k), LAMBDA addr : get_mem_u8(st, addr))

get_mem_u16(st, base_addr) ==
    Try(get_mem_at(st, base_addr, 0), LAMBDA a :
    Try(get_mem_at(st, base_addr, 1), LAMBDA b :
        Ok(u16_from_le_bytes(a, b))))

get_mem_u32(st, base_addr) ==
    Try(get_mem_at(st, base_addr, 0), LAMBDA a :
    Try(get_mem_at(st, base_addr, 1), LAMBDA b :
    Try(get_mem_at(st, base_addr, 2), LAMBDA c :
    Try(get_mem_at(st, base_addr, 3), LAMBDA d :
        Ok(u32_from_le_bytes(a, b, c, d))))))

set_mem_u8(st, addr, val) ==
    IF MemIndexInBounds(addr)
    THEN [res |-> OkUnit, st |-> MemStore(st, addr, val)]
    ELSE [res |-> Panic("index out of bounds"), st |-> st]

\* self.set_mem_u8(base_addr + k, val)? on the state left by the write w
\* before it: a failure of w, of the addition or of the store ends the
\* sequence with the earlier bytes written.
set_mem_at(w, base_addr, k, val) ==
    Let1(w, LAMBDA prev :
        IF ~IsOk(prev.res) THEN prev
        ELSE IF k = 0 THEN set_mem_u8(prev.st, base_addr, val)
        ELSE Let1(CheckedAdd(base_addr, k), LAMBDA at :
                IF IsOk(at) THEN set_mem_u8(prev.st, Val(at), val)
                ELSE [res |-> at, st |-> prev.st]))

\* No write yet.
Unwritten(st) == [res |-> OkUnit, st |-> st]

set_mem_u16(st, base_addr, val) ==
    Let2(base_addr, u16_to_le_bytes(val), LAMBDA base, bytes :
        set_mem_at(set_mem_at(Unwritten(st), base, 0, bytes[1]), base, 1, bytes[2]))

\* set_mem_u32 storing the most significant byte first.
set_mem_u32_big_endian(st, base_addr, val) ==
    Let2(base_addr, u32_to_le_bytes(val), LAMBDA base, bytes :
        set_mem_at(set_mem_at(set_mem_at(set_mem_at(Unwritten(st),
            base, 0, bytes[4]), base, 1, bytes[3]), base, 2, bytes[2]), base, 3, bytes[1]))

set_mem_u32(st, base_addr, val) ==
    Let2(base_addr, u32_to_le_bytes(val), LAMBDA base, bytes :
        set_mem_at(set_mem_at(set_mem_at(set_mem_at(Unwritten(st),
            base, 0, bytes[1]), base, 1, bytes[2]), base, 2, bytes[3]), base, 3, bytes[4]))

\* The n bytes at a, a+1, .. lie in [0, M): no address exceeds the 32-bit
\* range and the last one is below M.
AccessInside(a, n) ==
    /\ ~AddOverflows(a, AsU32(n - 1))
    /\ Lt32(wrapping_add(a, AsU32(n - 1)), M)

\* The addresses a, .., a+n-1 of an access inside memory.
Span(a, n) == {wrapping_add(a, AsU32(k)) : k \in 0..(n - 1)}

-----------------------------------------------------------------------------
(* decode.rs *)

\* (1 << width) - 1 as a u32, for 1 <= width <= 31.
LowMask(width) ==
    IF width <= 16 THEN U32(0, (2 ^ width) - 1) ELSE U32((2 ^ (width - 16)) - 1, 65535)

select(n, shift, width) == And32(Shr32(n, shift), LowMask(width))

\* (rd, f3, rs1, imm) of an I type instruction.
unpack_i(inst) ==
    [rd  |-> AsU8(select(inst, 7, 5)),
     f3  |-> AsU8(select(inst, 12, 3)),
     rs1 |-> AsU8(select(inst, 15, 5)),
     imm |-> AsU16(select(inst, 20, 12))]

UnknownInst == Err("UnknownInst")

\* The U arms: rd, and bits[31:12] back in place.
decode_u(inst, op) ==
    Ok([op |-> op, rd |-> AsU8(select(inst, 7, 5)), imm |-> Shl32(select(inst, 12, 20), 12)])

\* imm[20|10:1|11|19:12]
decode_j_imm(inst) ==
    Or32(Or32(Or32(Shl32(Shr32(inst, 31), 20),
                   Shl32(And32(Shr32(inst, 12), U32(0, \b11111111)), 12)),
              Shl32(And32(Shr32(inst, 20), U32(0, \b1)), 11)),
         Shl32(And32(Shr32(inst, 21), U32(0, \b1111111111)), 1))

decode_j(inst) ==
    Ok([op |-> "JAL", rd |-> AsU8(select(inst, 7, 5)), imm |-> decode_j_imm(inst)])

decode_jalr(inst) ==
    Let1(unpack_i(inst), LAMBDA u :
        IF u.f3 = 0 THEN Ok([op |-> "JALR", rd |-> u.rd, rs1 |-> u.rs1, imm |-> u.imm])
        ELSE UnknownInst)

\* A B immediate with instruction bit 7 placed at imm[10] instead of imm[11].
decode_b_imm_bit7_at_10(inst) ==
    AsU16(Or32(Or32(Or32(Shl32(Shr32(inst, 31), 12),
                         Shl32(And32(Shr32(inst, 7), U32(0, 1)), 10)),
                    Shl32(And32(Shr32(inst, 25), U32(0, \b111111)), 5)),
               Shl32(And32(Shr32(inst, 8), U32(0, \b1111)), 1)))

decode_b_imm(inst) ==
    AsU16(Or32(Or32(Or32(Shl32(Shr32(inst, 31), 12),
                         Shl32(And32(Shr32(inst, 7), U32(0, 1)), 11)),
                    Shl32(And32(Shr32(inst, 25), U32(0, \b111111)), 5)),
               Shl32(And32(Shr32(inst, 8), U32(0, \b1111)), 1)))

\* The rd, f3, rs1, rs2 and f7 fields, as the R, B and S arms select them.
fields(inst) ==
    [rd  |-> AsU8(select(inst, 7, 5)),
     f3  |-> AsU8(select(inst, 12, 3)),
     rs1 |-> AsU8(select(inst, 15, 5)),
     rs2 |-> AsU8(select(inst, 20, 5)),
     f7  |-> AsU8(select(inst, 25, 7))]

decode_b(inst) ==
    Let2(fields(inst), decode_b_imm(inst), LAMBDA u, imm :
        LET B(op) == Ok([op |-> op, rs1 |-> u.rs1, rs2 |-> u.rs2, imm |-> imm])
        IN  CASE u.f3 = 0 -> B("BEQ")
              [] u.f3 = 1 -> B("BNE")
              [] u.f3 = \b100 -> B("BLT")
              [] u.f3 = \b101 -> B("BGE")
              [] u.f3 = \b110 -> B("BLTU")
              [] u.f3 = \b111 -> B("BGEU")
              [] OTHER -> UnknownInst)

decode_load(inst) ==
    Let1(unpack_i(inst), LAMBDA u :
        LET L(op) == Ok([op |-> op, rs1 |-> u.rs1, rd |-> u.rd, imm |-> u.imm])
        IN  CASE u.f3 = 0 -> L("LB")
              [] u.f3 = 1 -> L("LH")
              [] u.f3 = \b010 -> L("LW")
              [] u.f3 = \b100 -> L("LBU")
              [] u.f3 = \b101 -> L("LHU")
              [] OTHER -> UnknownInst)

decode_s_imm(inst) ==
    AsU16(Or32(Shl32(Shr32(inst, 25), 5), And32(Shr32(inst, 7), U32(0, \b11111))))

decode_s(inst) ==
    Let2(fields(inst), decode_s_imm(inst), LAMBDA u, imm :
        LET S(op) == Ok([op |-> op, rs1 |-> u.rs1, rs2 |-> u.rs2, imm |-> imm])
        IN  CASE u.f3 = 0 -> S("SB")
              [] u.f3 = 1 -> S("SH")
              [] u.f3 = \b010 -> S("SW")
              [] OTHER -> UnknownInst)

decode_i(inst) ==
    Let1(unpack_i(inst), LAMBDA u :
        LET I(op) == Ok([op |-> op, rd |-> u.rd, rs1 |-> u.rs1, imm |-> u.imm])
            shamt == u.imm % 32
            Sh(op) == Ok([op |-> op, rd |-> u.rd, rs1 |-> u.rs1, shamt |-> shamt])
        IN  CASE u.f3 = 0 -> I("ADDI")
              [] u.f3 = \b010 -> I("SLTI")
              [] u.f3 = \b011 -> I("SLTIU")
              [] u.f3 = \b100 -> I("XORI")
              [] u.f3 = \b110 -> I("ORI")
              [] u.f3 = \b111 -> I("ANDI")
              [] u.f3 = \b001 -> Sh("SLLI")
              [] u.f3 = \b101 ->
                    CASE u.imm \div 32 = 0 -> Sh("SRLI")
                      [] u.imm \div 32 = \b0100000 -> Sh("SRAI")
                      [] OTHER -> UnknownInst
              [] OTHER -> UnknownInst)

decode_r(inst) ==
    Let1(fields(inst), LAMBDA u :
        LET R(op) == Ok([op |-> op, rd |-> u.rd, rs1 |-> u.rs1, rs2 |-> u.rs2])
        IN  CASE u.f3 = 0 /\ u.f7 = 0 -> R("ADD")
              [] u.f3 = 0 /\ u.f7 = \b0100000 -> R("SUB")
              [] u.f3 = 1 /\ u.f7 = 0 -> R("SLL")
              [] u.f3 = \b010 /\ u.f7 = 0 -> R("SLT")
              [] u.f3 = \b011 /\ u.f7 = 0 -> R("SLTU")
              [] u.f3 = \b100 /\ u.f7 = 0 -> R("XOR")
              [] u.f3 = \b101 /\ u.f7 = 0 -> R("SRL")
              [] u.f3 = \b101 /\ u.f7 = \b0100000 -> R("SRA")
              [] u.f3 = \b110 /\ u.f7 = 0 -> R("OR")
              [] u.f3 = \b111 /\ u.f7 = 0 -> R("AND")
              [] OTHER -> UnknownInst)

\* inst & 0b1_111_111
Opcode(inst) == AsU8(And32(inst, U32(0, \b1111111)))

decode(inst) ==
    Let2(inst, Opcode(inst), LAMBDA w, opcode :
        CASE opcode = \b0110111 -> decode_u(w, "LUI")
          [] opcode = \b0010111 -> decode_u(w, "AUIPC")
          [] opcode = \b1101111 -> decode_j(w)
          [] opcode = \b1100111 -> decode_jalr(w)
          [] opcode = \b1100011 -> decode_b(w)
          [] opcode = \b0000011 -> decode_load(w)
          [] opcode = \b0100011 -> decode_s(w)
          [] opcode = \b0010011 -> decode_i(w)
          [] opcode = \b0110011 -> decode_r(w)
          [] OTHER -> UnknownInst)

-----------------------------------------------------------------------------
(* instructions.rs *)

\* Option<u32>
Some(x) == <<"Some", x>>

None == <<"None">>

\* InstError: Suspend, or State(e) built by `?` from a state::Error.
Suspend == Err(<<"Suspend">>)

\* The `?` operator on a state result inside execute: an error becomes
\* InstError::State, a panic stays a panic.
FromState(r) == IF r.kind = "Err" THEN Err(<<"State", Val(r)>>) ELSE r

\* sign_extend!(size, val) for a u8 or u16 val.
sign_extend(size, val) ==
    Let1(val, LAMBDA v :
        IF v \div (2 ^ (size - 1)) = 1
        THEN Or32(Shl32(U32_MAX, size), AsU32(v))
        ELSE AsU32(v))

\* sign_extend!(size, val) for a u32 val.
sign_extend32(size, val) ==
    Let1(val, LAMBDA v :
        IF Shr32(v, size - 1) = U32(0, 1)
        THEN Or32(Shl32(U32_MAX, size), v)
        ELSE v)

\* A less-than that compares the two words as unsigned whatever their signs.
signed_cmp_lt_unsigned(a, b) == Lt32(a, b)

signed_cmp_lt(a, b) ==
    Let2(a, b, LAMBDA x, y :
        IF Shr32(x, 31) = Shr32(y, 31) THEN Lt32(x, y) ELSE Shr32(x, 31) = U32(0, 1))

signed_cmp_gt(a, b) ==
    Let2(a, b, LAMBDA x, y :
        IF Shr32(x, 31) = Shr32(y, 31) THEN ~Lt32(x, y) ELSE Shr32(x, 31) = Zero32)

\* A right shift that never moves the sign bit in.
right_shift_arithmetic_logical(val, amount32) == Shr32(val, AsU16(amount32) % 32)

right_shift_arithmetic(val, amount32) ==
    Let2(val, AsU16(amount32) % 32, LAMBDA v, amount :
        IF Shr32(v, 31) = U32(0, 1) /\ amount > 0
        THEN Or32(Shr32(v, amount), Shl32(U32_MAX, 32 - amount))
        ELSE Shr32(v, amount))

\* state.get_r(rs)? followed by the rest of the arm, K, on the value read.
ReadR(st, rs, K(_)) ==
    Let1(get_r(st, rs), LAMBDA r :
        IF IsOk(r) THEN K(Val(r)) ELSE [res |-> FromState(r), st |-> st])

\* state.set_r(rd, val)?; Ok(next)
WriteR(st, rd, val, next) ==
    Let1(set_r(st, rd, val), LAMBDA w :
        IF IsOk(w.res) THEN [res |-> Ok(next), st |-> w.st]
        ELSE [res |-> FromState(w.res), st |-> w.st])

\* A memory read result r, then the rest of the arm on the value read.
ReadM(st, r, K(_)) ==
    Let1(r, LAMBDA x : IF IsOk(x) THEN K(Val(x)) ELSE [res |-> FromState(x), st |-> st])

\* A memory write w = [res, st]: Ok(None) when it succeeded.
WroteM(w) ==
    Let1(w, LAMBDA x :
        IF IsOk(x.res) THEN [res |-> Ok(None), st |-> x.st]
        ELSE [res |-> FromState(x.res), st |-> x.st])

\* current_pc + 4, then state.set_r(rd, ..)?, then Ok(Some(target)).
Link(st, rd, target) ==
    Let1(CheckedAdd(get_pc(st), 4), LAMBDA ret :
        IF ~IsOk(ret) THEN [res |-> ret, st |-> st]
        ELSE WriteR(st, rd, Val(ret), Some(target)))

branch(st, rs1, rs2, imm, cmp(_, _)) ==
    ReadR(st, rs1, LAMBDA a :
    ReadR(st, rs2, LAMBDA b :
        IF cmp(a, b)
        THEN [res |-> Ok(Some(wrapping_add(get_pc(st), sign_extend(13, imm)))), st |-> st]
        ELSE [res |-> Ok(None), st |-> st]))

\* rs1 + sign_extend(imm, 12), then the rest of a load or store arm.
WithAddr(st, i, K(_)) ==
    ReadR(st, i.rs1, LAMBDA base :
        Let1(wrapping_add(base, sign_extend(12, i.imm)), LAMBDA addr : K(addr)))

\* The I-arith arms: rd <- f(rs1, sign_extend(imm, 12)).
ArithI(st, i, f(_, _)) ==
    ReadR(st, i.rs1, LAMBDA a : WriteR(st, i.rd, f(a, sign_extend(12, i.imm)), None))

\* The shift-immediate arms: rd <- f(rs1, shamt as u32).
ShiftI(st, i, f(_, _)) ==
    ReadR(st, i.rs1, LAMBDA a : WriteR(st, i.rd, f(a, AsU32(i.shamt)), None))

\* The R arms: rd <- f(rs1, rs2).
ArithR(st, i, f(_, _)) ==
    ReadR(st, i.rs1, LAMBDA a :
    ReadR(st, i.rs2, LAMBDA b : WriteR(st, i.rd, f(a, b), None)))

Bool32(b) == IF b THEN U32(0, 1) ELSE Zero32

\* A JALR arm that writes the link first and reads rs1 afterwards.
execute_jalr_link_first(i, st) ==
    Let1(Link(st, i.rd, Zero32), LAMBDA linked :
        IF ~IsOk(linked.res) THEN linked
        ELSE Let1(get_r(linked.st, i.rs1), LAMBDA a :
                IF ~IsOk(a) THEN [res |-> FromState(a), st |-> linked.st]
                ELSE [res |-> Ok(Some(Shl32(Shr32(
                                wrapping_add(Val(a), sign_extend(12, i.imm)), 1), 1))),
                      st |-> linked.st]))

\* A JALR arm that keeps bit 0 of the target.
execute_jalr_bit0_kept(i, st) ==
    Let1(get_r(st, i.rs1), LAMBDA a :
        IF ~IsOk(a) THEN [res |-> FromState(a), st |-> st]
        ELSE Link(st, i.rd, wrapping_add(Val(a), sign_extend(12, i.imm))))

\* The JALR arm: the target from rs1 as it is before the link is written.
execute_jalr(i, st) ==
    ReadR(st, i.rs1, LAMBDA a :
        Link(st, i.rd, Shl32(Shr32(wrapping_add(a, sign_extend(12, i.imm)), 1), 1)))

\* Inst::execute: [res, st], res being Ok(Some(pc)), Ok(None), an InstError
\* or a panic.
execute(i, st) ==
    CASE i.op = "LUI" -> WriteR(st, i.rd, i.imm, None)
      [] i.op = "AUIPC" -> WriteR(st, i.rd, wrapping_add(get_pc(st), i.imm), None)
      [] i.op = "JAL" ->
            Link(st, i.rd, wrapping_add(get_pc(st), sign_extend32(21, i.imm)))
      [] i.op = "JALR" -> execute_jalr(i, st)
      [] i.op = "BEQ" -> branch(st, i.rs1, i.rs2, i.imm, LAMBDA a, b : a = b)
      [] i.op = "BNE" -> branch(st, i.rs1, i.rs2, i.imm, LAMBDA a, b : a # b)
      [] i.op = "BLT" -> branch(st, i.rs1, i.rs2, i.imm, signed_cmp_lt)
      [] i.op = "BLTU" -> branch(st, i.rs1, i.rs2, i.imm, Lt32)
      [] i.op = "BGE" -> branch(st, i.rs1, i.rs2, i.imm, signed_cmp_gt)
      [] i.op = "BGEU" -> branch(st, i.rs1, i.rs2, i.imm, LAMBDA a, b : ~Lt32(a, b))
      [] i.op = "LB" ->
            WithAddr(st, i, LAMBDA addr : ReadM(st, get_mem_u8(st, addr),
                LAMBDA val : WriteR(st, i.rd, sign_extend(8, val), None)))
      [] i.op = "LH" ->
            WithAddr(st, i, LAMBDA addr : ReadM(st, get_mem_u16(st, addr),
                LAMBDA val : WriteR(st, i.rd, sign_extend(16, val), None)))
      [] i.op = "LW" ->
            WithAddr(st, i, LAMBDA addr : ReadM(st, get_mem_u32(st, addr),
                LAMBDA val : WriteR(st, i.rd, val, None)))
      [] i.op = "LBU" ->
            WithAddr(st, i, LAMBDA addr : ReadM(st, get_mem_u8(st, addr),
                LAMBDA val : WriteR(st, i.rd, AsU32(val), None)))
      [] i.op = "LHU" ->
            WithAddr(st, i, LAMBDA addr : ReadM(st, get_mem_u16(st, addr),
                LAMBDA val : WriteR(st, i.rd, AsU32(val), None)))
      [] i.op = "SB" ->
            WithAddr(st, i, LAMBDA addr : ReadR(st, i.rs2,
                LAMBDA v : WroteM(set_mem_u8(st, addr, AsU8(v)))))
      [] i.op = "SH" ->
            WithAddr(st, i, LAMBDA addr : ReadR(st, i.rs2,
                LAMBDA v : WroteM(set_mem_u16(st, addr, AsU16(v)))))
      [] i.op = "SW" ->
            WithAddr(st, i, LAMBDA addr : ReadR(st, i.rs2,
                LAMBDA v : WroteM(set_mem_u32(st, addr, v))))
      [] i.op = "ADDI" -> ArithI(st, i, wrapping_add)
      [] i.op = "SLTI" -> ArithI(st, i, LAMBDA a, b : Bool32(signed_cmp_lt(a, b)))
      [] i.op = "SLTIU" -> ArithI(st, i, LAMBDA a, b : Bool32(Lt32(a, b)))
      [] i.op = "XORI" -> ArithI(st, i, Xor32)
      [] i.op = "ORI" -> ArithI(st, i, Or32)
      [] i.op = "ANDI" -> ArithI(st, i, And32)
      [] i.op = "SLLI" -> ShiftI(st, i, wrapping_shl)
      [] i.op = "SRLI" -> ShiftI(st, i, wrapping_shr)
      [] i.op = "SRAI" -> ShiftI(st, i, right_shift_arithmetic)
      [] i.op = "ADD" -> ArithR(st, i, wrapping_add)
      [] i.op = "SUB" ->
            ArithR(st, i, LAMBDA a, b : wrapping_add(a, wrapping_add(Not32(b), U32(0, 1))))
      [] i.op = "SLT" -> ArithR(st, i, LAMBDA a, b : Bool32(signed_cmp_lt(a, b)))
      [] i.op = "SLTU" -> ArithR(st, i, LAMBDA a, b : Bool32(Lt32(a, b)))
      [] i.op = "SLL" -> ArithR(st, i, wrapping_shl)
      [] i.op = "SRL" -> ArithR(st, i, wrapping_shr)
      [] i.op = "SRA" -> ArithR(st, i, right_shift_arithmetic)
      [] i.op = "XOR" -> ArithR(st, i, Xor32)
      [] i.op = "OR" -> ArithR(st, i, Or32)
      [] i.op = "AND" -> ArithR(st, i, And32)
      [] i.op = "ECALL" -> [res |-> Suspend, st |-> st]
      [] i.op = "IGNORE" -> [res |-> Ok(None), st |-> st]

-----------------------------------------------------------------------------
(* machine.rs *)

\* Machine::fetch_decode: the word at pc, decoded.  A state error becomes
\* Error::State, a decode error Error::Decode.
fetch_decode(st) ==
    Let1(get_mem_u32(st, get_pc(st)), LAMBDA inst :
        IF inst.kind = "Panic" THEN inst
        ELSE IF inst.kind = "Err" THEN Err(<<"State", Val(inst)>>)
        ELSE Let1(decode(Val(inst)), LAMBDA d :
                IF IsOk(d) THEN d ELSE Err(<<"Decode", Val(d)>>)))

RECURSIVE log_r_from(_, _)
\* Machine::log_r from i on: get_r(i + 1).expect(..) for i in 0..31.
log_r_from(st, i) ==
    IF i >= 31 THEN OkUnit
    ELSE Let1(get_r(st, i + 1), LAMBDA r :
            IF IsOk(r) THEN log_r_from(st, i + 1)
            ELSE IF r.kind = "Panic" THEN r
            ELSE Panic("could not fetch value"))

\* Machine::log_r.  log::info! evaluates its arguments only when the "stat"
\* target is enabled at info level.
log_r(st, stat_enabled) == IF stat_enabled THEN log_r_from(st, 0) ELSE OkUnit

\* The loop's PC update: Some(pc) => set_pc(pc), None => set_pc(pc + 4).
advance_pc(st, pc, next) ==
    IF next[1] = "Some" THEN [res |-> OkUnit, st |-> set_pc(st, next[2])]
    ELSE Let1(CheckedAdd(pc, 4), LAMBDA sum :
            IF IsOk(sum) THEN [res |-> OkUnit, st |-> set_pc(st, Val(sum))]
            ELSE [res |-> sum, st |-> st])

\* One iteration of the loop of Machine::run: [res, st].  res is OkUnit when
\* the loop goes on, the Error run returns, or a panic.
run_cycle(st, stat_enabled) ==
    Let2(get_pc(st), fetch_decode(st), LAMBDA pc, inst :
        IF ~IsOk(inst) THEN [res |-> inst, st |-> st]
        ELSE IF Val(inst).op = "ECALL" /\ ~IsOk(log_r(st, stat_enabled))
        THEN [res |-> log_r(st, stat_enabled), st |-> st]
        ELSE Let1(execute(Val(inst), st), LAMBDA x :
                IF x.res.kind = "Panic" THEN x
                ELSE IF x.res.kind = "Err"
                THEN [res |-> Err(<<"Execute">> \o Val(x.res)), st |-> x.st]
                ELSE advance_pc(x.st, pc, Val(x.res))))

-----------------------------------------------------------------------------
(* The values the operations are called with. *)

\* The memory sizes M: a small memory, and the whole 32-bit address space.
MemSizes == {U32(0, MemSize), U32(Half, 0)}

RegNames == {0, 1, 31, 32}

RegVals == {U32(0, 1), U32(\hDEAD, \hBEEF)}

PcVals == {U32(0, 4), U32(65535, 65532)}

\* Byte addresses: the first and last byte, the first byte outside a small
\* memory, the last byte of the address space.
Addrs8 == {Zero32, U32(0, MemSize - 1), U32(0, MemSize), U32_MAX}

\* Halfword addresses: unaligned inside, straddling the end of a small
\* memory, straddling the end of the address space.
Addrs16 == {U32(0, MemSize - 3), U32(0, MemSize - 1), U32_MAX}

\* Word addresses: unaligned inside, straddling the end of a small memory,
\* the last word of the address space, straddling the end of the address space.
Addrs32 == {U32(0, MemSize - 5), U32(0, MemSize - 3), U32(65535, 65532), U32(65535, 65534)}

-----------------------------------------------------------------------------
(* The State interface: a caller holding the State calls its methods. *)

NoCall == [op |-> "new", args |-> <<>>, res |-> OkUnit]

Init ==
    /\ M \in MemSizes
    /\ overflow_checks \in BOOLEAN
    /\ state = StateDefault
    /\ mode = "idle"
    /\ cycles = 0
    /\ word = Zero32
    /\ last = NoCall
    /\ steps = 0

\* A call that returned res (or panicked) and left the state st.
Called(op, args, res, st) ==
    /\ state' = st
    /\ last' = [op |-> op, args |-> args, res |-> res]
    /\ mode' = IF res.kind = "Panic" THEN "aborted" ELSE mode
    /\ steps' = steps + 1
    /\ UNCHANGED <<M, overflow_checks, cycles, word>>

CanCall == mode = "idle" /\ steps < MaxSteps

SetPc ==
    /\ CanCall
    /\ \E v \in PcVals : Called("set_pc", <<v>>, OkUnit, set_pc(state, v))

GetR ==
    /\ CanCall
    /\ \E name \in RegNames : Called("get_r", <<name>>, get_r(state, name), state)

SetR ==
    /\ CanCall
    /\ \E name \in RegNames, v \in RegVals :
          LET r == set_r(state, name, v) IN Called("set_r", <<name, v>>, r.res, r.st)

GetMemU8 ==
    /\ CanCall
    /\ \E a \in Addrs8 : Called("get_mem_u8", <<a>>, get_mem_u8(state, a), state)

GetMemU16 ==
    /\ CanCall
    /\ \E a \in Addrs16 : Called("get_mem_u16", <<a>>, get_mem_u16(state, a), state)

GetMemU32 ==
    /\ CanCall
    /\ \E a \in Addrs32 : Called("get_mem_u32", <<a>>, get_mem_u32(state, a), state)

SetMemU8 ==
    /\ CanCall
    /\ \E a \in Addrs8, v \in {\h7F} :
          LET r == set_mem_u8(state, a, v) IN Called("set_mem_u8", <<a, v>>, r.res, r.st)

SetMemU16 ==
    /\ CanCall
    /\ \E a \in Addrs16, v \in {\hBEEF} :
          LET r == set_mem_u16(state, a, v) IN Called("set_mem_u16", <<a, v>>, r.res, r.st)

SetMemU32 ==
    /\ CanCall
    /\ \E a \in Addrs32, v \in RegVals :
          LET r == set_mem_u32(state, a, v) IN Called("set_mem_u32", <<a, v>>, r.res, r.st)

Next ==
    \/ SetPc
    \/ GetR
    \/ SetR
    \/ GetMemU8
    \/ GetMemU16
    \/ GetMemU32
    \/ SetMemU8
    \/ SetMemU16
    \/ SetMemU32

Spec == Init /\ [][Next]_vars

-----------------------------------------------------------------------------
(* Instruction words, assembled from their fields. *)

\* The word with the given opcode, rd, funct3, rs1, rs2 and funct7 fields
\* (bits 6:0, 11:7, 14:12, 19:15, 24:20, 31:25).
MkWord(opcode, rd, f3, rs1, rs2, f7) ==
    U32((rs1 \div 2) + rs2 * 16 + f7 * 512,
        opcode + rd * 128 + f3 * 4096 + (rs1 % 2) * 32768)

\* An I type word: imm[11:0] in bits 31:20.
EncI(opcode, rd, f3, rs1, imm) == MkWord(opcode, rd, f3, rs1, imm % 32, imm \div 32)

\* An S or B type word from the raw bits 31:25 and 11:7.
EncS(opcode, f3, rs1, rs2, hi7, lo5) == MkWord(opcode, lo5, f3, rs1, rs2, hi7)

ECALL_WORD == U32(0, \h73)

FENCE_WORD == U32(\h0FF0, \h000F)

ADDI_X1_X0_5 == EncI(\b0010011, 1, 0, 0, 5)

\* The programs of the loop specification: one instruction word each.
InstWords ==
    { ECALL_WORD, FENCE_WORD, Zero32, U32_MAX,
      ADDI_X1_X0_5,
      EncI(\b0010011, 0, 0, 0, 0),              \* addi x0, x0, 0
      EncI(\b0010011, 3, 0, 1, \hFFF),          \* addi x3, x1, -1
      EncI(\b0010011, 3, \b101, 1, \h401),      \* srai x3, x1, 1
      MkWord(\b0110011, 3, 0, 1, 2, 0),         \* add x3, x1, x2
      MkWord(\b0110011, 3, 0, 1, 2, \b0100000), \* sub x3, x1, x2
      MkWord(\b0110011, 31, 0, 1, 2, 0),        \* add x31, x1, x2
      MkWord(\b0110011, 3, \b010, 1, 2, 0),     \* slt x3, x1, x2
      MkWord(\b0110111, 3, \b101, 21, 10, \h6F),\* lui x3, 0xDEADD
      MkWord(\b0010111, 3, 0, 0, 0, 0),         \* auipc x3, 0
      MkWord(\b1101111, 1, 0, 0, 8, 0),         \* jal x1, +8
      MkWord(\b1101111, 0, 0, 0, 8, 0),         \* jal x0, +8
      MkWord(\b1101111, 3, 7, 31, 30, \h7F),    \* jal x3, -4
      EncI(\b1100111, 1, 0, 2, 5),              \* jalr x1, 5(x2)
      EncI(\b1100111, 1, 0, 1, 0),              \* jalr x1, 0(x1)
      EncS(\b1100011, 0, 1, 2, 0, 8),           \* beq x1, x2, +8
      EncS(\b1100011, 1, 1, 2, \h7F, \b11101),  \* bne x1, x2, -4
      EncS(\b1100011, \b100, 1, 2, 0, 8),       \* blt x1, x2, +8
      EncS(\b1100011, \b101, 1, 2, 0, 8),       \* bge x1, x2, +8
      EncI(\b0000011, 3, \b010, 1, 0),          \* lw x3, 0(x1)
      EncI(\b0000011, 3, 0, 1, 3),              \* lb x3, 3(x1)
      EncI(\b0000011, 0, \b010, 1, 0),          \* lw x0, 0(x1)
      EncS(\b0100011, \b010, 1, 2, 0, 0),       \* sw x2, 0(x1)
      EncS(\b0100011, 1, 1, 2, 0, 2),           \* sh x2, 2(x1)
      EncS(\b0100011, 0, 1, 2, \h7F, \b11111) } \* sb x2, -1(x1)

\* Where a run starts: address 0, and the last word of the address space.
LoopPcs == {Zero32, U32(65535, 65532)}

\* Values of x1 and x2 before the run: x1 also serves as a base address that
\* is inside a small memory (8), straddles its end (MemSize - 3), or is the
\* top of the address space.
X1Vals == {U32(0, 8), U32(0, MemSize - 3), U32_MAX}

X2Vals == {U32(0, 8), U32(\hDEAD, \hBEEF)}

-----------------------------------------------------------------------------
(* The machine loop: a harness builds a State through its interface, may    *)
(* set registers, and calls Machine::run, which loops until an error.       *)

\* The state the harness has built before the run, through set_mem_u32,
\* set_r and set_pc: the word w stored at pc0 and ADDI x1, x0, 5 after it
\* (each where memory has room for it), x1 and x2 set, and the PC at pc0.
Loaded(pc0, w, x1, x2) ==
    LET nx     == wrapping_add(pc0, U32(0, 4))
        at_pc  == IF AccessInside(pc0, 4)
                  THEN {<<wrapping_add(pc0, AsU32(k)), u32_to_le_bytes(w)[k + 1]>> : k \in 0..3}
                  ELSE {}
        at_nx  == IF AccessInside(pc0, 4) /\ AccessInside(nx, 4)
                  THEN {<<wrapping_add(nx, AsU32(k)), u32_to_le_bytes(ADDI_X1_X0_5)[k + 1]>> : k \in 0..3}
                  ELSE {}
        image  == {p \in at_pc \cup at_nx : p[2] # 0}
    IN  [pc        |-> pc0,
         registers |-> [i \in 1..RegistersLen |->
                            CASE i = 2 -> x1 [] i = 3 -> x2 [] OTHER -> Zero32],
         memory    |-> [a \in {p[1] : p \in image} |-> (CHOOSE p \in image : p[1] = a)[2]]]

LoopInit ==
    /\ M \in MemSizes
    /\ overflow_checks \in BOOLEAN
    /\ \E pc0 \in LoopPcs, w \in InstWords, x1 \in X1Vals, x2 \in X2Vals :
          state = Loaded(pc0, w, x1, x2)
    /\ mode = "idle"
    /\ cycles = 0
    /\ word = Zero32
    /\ last = NoCall
    /\ steps = 0

\* The harness sets a register before (or between) runs.
LoopSetR ==
    /\ CanCall
    /\ \E name \in {0, 3}, v \in {U32(0, 1)} :
          LET r == set_r(state, name, v) IN Called("set_r", <<name, v>>, r.res, r.st)

\* One iteration of the loop, entered with `cycles` iterations done: the loop
\* goes on, or run returns its error, or the program panics.
Iterate(done) ==
    \E stat_enabled \in BOOLEAN :
        LET r == run_cycle(state, stat_enabled)
        IN  /\ state' = r.st
            /\ cycles' = done + 1
            /\ last' = [op |-> "run", args |-> <<get_pc(state)>>, res |-> r.res]
            /\ mode' = CASE r.res.kind = "Panic" -> "aborted"
                         [] r.res.kind = "Err" -> "idle"
                         [] OTHER -> "running"
            /\ steps' = steps + 1
            /\ UNCHANGED <<M, overflow_checks, word>>

\* Machine::run is called: cycles = 0, and the first iteration.
Run == CanCall /\ Iterate(0)

\* A further iteration of the loop.
Cycle == mode = "running" /\ steps < MaxSteps /\ Iterate(cycles)

LoopNext ==
    \/ LoopSetR
    \/ Run
    \/ Cycle

LoopSpec == LoopInit /\ [][LoopNext]_vars

-----------------------------------------------------------------------------
(* The decoder on its own: a word is decoded, and the instruction it gives  *)
(* is executed on a fresh State.                                            *)

\* The opcodes of the words decoded: the nine the decoder dispatches on,
\* system and misc-mem, and three others (of the all-zero and all-ones words,
\* and OP-FP).
Opcodes ==
    { \b0110111, \b0010111, \b1101111, \b1100111, \b1100011, \b0000011,
      \b0100011, \b0010011, \b0110011, \b1110011, \b0001111,
      \b0000000, \b1111111, \b1010011 }

Funct7s == {0, 1, \b0100000, \b1010101, \b1111111}

\* Every funct3 and the funct7 values above under every opcode, with the
\* register fields all zeros or all ones.
FieldWords ==
    { MkWord(opcode, rd, f3, rs1, rs2, f7) :
        opcode \in Opcodes, rd \in {0, 31}, f3 \in 0..7,
        rs1 \in {0, 31}, rs2 \in {0, 31}, f7 \in Funct7s }

\* Under every opcode, each of the bits 31:7 alone, and all of them but one.
OneBitWords ==
    { Or32(Shl32(U32(0, 1), i), U32(0, opcode)) : opcode \in Opcodes, i \in 7..31 }
    \cup
    { Xor32(U32_MAX, Or32(Shl32(U32(0, 1), i), U32(0, 127 - opcode))) :
        opcode \in Opcodes, i \in 7..31 }

DecodeWords == FieldWords \cup OneBitWords \cup InstWords

DecodeInit ==
    /\ M = U32(0, MemSize)
    /\ overflow_checks = TRUE
    /\ state = StateDefault
    /\ mode = "idle"
    /\ cycles = 0
    /\ word \in DecodeWords
    /\ last = NoCall
    /\ steps = 0

\* decode(word)
Decode ==
    /\ steps = 0
    /\ last' = [op |-> "decode", args |-> <<word>>, res |-> decode(word)]
    /\ steps' = 1
    /\ UNCHANGED <<M, overflow_checks, state, mode, cycles, word>>

\* inst.execute(&mut state) on the instruction decoded.
Execute ==
    /\ steps = 1
    /\ last.op = "decode"
    /\ IsOk(last.res)
    /\ LET x == execute(Val(last.res), state)
       IN  /\ state' = x.st
           /\ last' = [op |-> "execute", args |-> <<Val(last.res)>>, res |-> x.res]
           /\ mode' = IF x.res.kind = "Panic" THEN "aborted" ELSE mode
    /\ steps' = 2
    /\ UNCHANGED <<M, overflow_checks, cycles, word>>

DecodeNext ==
    \/ Decode
    \/ Execute

DecodeSpec == DecodeInit /\ [][DecodeNext]_vars

-----------------------------------------------------------------------------
(* Properties of the State interface, checked under Spec. *)

\* The step just taken was a call of op (last' describes it).
JustCalled(op) == steps' = steps + 1 /\ last'.op = op

\* Bits 8k+7 : 8k of v.
ByteOf(v, k) == BitsVal([j \in 0..7 |-> Bit(v, 8 * k + j)], 0, 8)

\* C1: set_r(0, v) returns success and leaves PC, all registers and all
\* memory unchanged (a write to x0 is silently discarded).
C1_SetR0Discarded ==
    [][(JustCalled("set_r") /\ last'.args[1] = 0) => (IsOk(last'.res) /\ state' = state)]_vars

\* C3: for 1 <= i <= 31, set_r(i, v) succeeds, a following get_r(i) returns
\* v and every other register is unchanged; for i >= 32, get_r(i) and
\* set_r(i, v) return InvalidRegister and change nothing.
C3_SetRGetR ==
    [][/\ (JustCalled("set_r") /\ last'.args[1] \in 1..31) =>
            /\ IsOk(last'.res)
            /\ get_r(state', last'.args[1]) = Ok(last'.args[2])
            /\ \A j \in (0..31) \ {last'.args[1]} : get_r(state', j) = get_r(state, j)
       /\ (JustCalled("set_r") /\ last'.args[1] >= 32) =>
            (last'.res = Err("InvalidRegister") /\ state' = state)
       /\ (JustCalled("get_r") /\ last'.args[1] >= 32) =>
            (last'.res = Err("InvalidRegister") /\ state' = state)]_vars

\* Width in bytes of a memory accessor, 0 for any other operation.
AccessWidth(op) ==
    CASE op \in {"get_mem_u8", "set_mem_u8"} -> 1
      [] op \in {"get_mem_u16", "set_mem_u16"} -> 2
      [] op \in {"get_mem_u32", "set_mem_u32"} -> 4
      [] OTHER -> 0

\* C4: a load or store with a byte outside [0, M) returns the
\* InvalidMemoryAccess error value instead of aborting, and an access entirely
\* inside [0, M) succeeds regardless of alignment.
C4_MemoryBoundsChecked ==
    AccessWidth(last.op) > 0 =>
        IF AccessInside(last.args[1], AccessWidth(last.op))
        THEN IsOk(last.res)
        ELSE last.res = Err("InvalidMemoryAccess")

\* C5: after set_mem_u32(a, v) with a+3 < M, get_mem_u8 at a, a+1, a+2, a+3
\* reads bits 7:0, 15:8, 23:16, 31:24 of v, get_mem_u32(a) returns v, and
\* every byte outside a..a+3 is unchanged.
C5_StoreWordLittleEndian ==
    [][(JustCalled("set_mem_u32") /\ AccessInside(last'.args[1], 4)) =>
          LET a == last'.args[1]
              v == last'.args[2]
          IN  /\ IsOk(last'.res)
              /\ \A k \in 0..3 :
                    get_mem_u8(state', wrapping_add(a, AsU32(k))) = Ok(ByteOf(v, k))
              /\ get_mem_u32(state', a) = Ok(v)
              /\ \A b \in (DOMAIN state.memory \cup DOMAIN state'.memory) \ Span(a, 4) :
                    MemByte(state', b) = MemByte(state, b)]_vars

\* A word was stored at an unaligned address next to a byte written before,
\* which is still there.
C5_Witness ==
    /\ last.op = "set_mem_u32"
    /\ IsOk(last.res)
    /\ last.args = <<U32(0, MemSize - 5), U32(\hDEAD, \hBEEF)>>
    /\ MemByte(state, U32(0, MemSize - 1)) = \h7F
    /\ MemByte(state, U32(0, MemSize - 5)) = \hEF

-----------------------------------------------------------------------------
(* Properties of the machine loop, checked under LoopSpec. *)

\* The step just taken was an iteration of the loop of Machine::run.
JustCycled == steps' = steps + 1 /\ last'.op = "run"

\* C2: in every state reached by set_r calls and executed instructions,
\* get_r(0) returns 0.
C2_X0ReadsZero == get_r(state, 0) = Ok(Zero32)

\* An instruction was executed with x1 non-zero, and then set_r(0, 1) was
\* called.
C2_Witness ==
    /\ cycles >= 1
    /\ last.op = "set_r"
    /\ last.args = <<0, U32(0, 1)>>
    /\ get_r(state, 1) # Ok(Zero32)

\* C6: a cycle that finds the word 0x00000073 at PC ends the run with the
\* Suspend error, and leaves PC, every register and memory as they were
\* before the cycle.
C6_EcallSuspends ==
    [][(JustCycled /\ get_mem_u32(state, get_pc(state)) = Ok(ECALL_WORD)) =>
          /\ last'.res = Err(<<"Execute", "Suspend">>)
          /\ mode' = "idle"
          /\ state' = state]_vars

\* C10: after a cycle in which fetch, decode and execute succeed, the run
\* has not aborted and PC is the pre-cycle PC + 4 modulo 2^32 when execute
\* returned None, and the target when it returned Some(target).
C10_PcAfterCycle ==
    [][(/\ JustCycled
        /\ IsOk(fetch_decode(state))
        /\ IsOk(execute(Val(fetch_decode(state)), state).res)) =>
          LET next == Val(execute(Val(fetch_decode(state)), state).res)
          IN  /\ mode' # "aborted"
              /\ get_pc(state') = IF next = None
                                  THEN wrapping_add(get_pc(state), U32(0, 4))
                                  ELSE next[2]]_vars

-----------------------------------------------------------------------------
(* Properties of the decoder, checked under DecodeSpec. *)

\* Bits lo+n-1 : lo of the word w, read bit by bit.
FieldOf(w, lo, n) == BitsVal([j \in 0..31 |-> Bit(w, j)], lo, n)

\* C7: decode gives ECALL for opcode 1110011 with funct12 = 0 and
\* rs1 = rd = 0, IGNORE for the CSR encodings of opcode 1110011 and for every
\* word of opcode 0001111; executing IGNORE returns None and changes nothing.
C7_SystemAndMiscMem ==
    last.op = "decode" =>
        LET w == last.args[1]
            opcode == FieldOf(w, 0, 7)
            f3 == FieldOf(w, 12, 3)
        IN  /\ (/\ opcode = \b1110011
                /\ f3 = 0
                /\ FieldOf(w, 20, 12) = 0
                /\ FieldOf(w, 15, 5) = 0
                /\ FieldOf(w, 7, 5) = 0) => last.res = Ok([op |-> "ECALL"])
            /\ (opcode = \b1110011 /\ f3 \in {1, 2, 3, 5, 6, 7}) =>
                    last.res = Ok([op |-> "IGNORE"])
            /\ opcode = \b0001111 => last.res = Ok([op |-> "IGNORE"])
            /\ execute([op |-> "IGNORE"], state) = [res |-> Ok(None), st |-> state]

\* The variant the encoding table lists for the word w, or "UnknownInst".
Listed(w) ==
    LET opcode == FieldOf(w, 0, 7)
        f3 == FieldOf(w, 12, 3)
        f7 == FieldOf(w, 25, 7)
        By3(names) == IF f3 \in DOMAIN names THEN names[f3] ELSE "UnknownInst"
        By37(names) == IF <<f3, f7>> \in DOMAIN names THEN names[<<f3, f7>>] ELSE "UnknownInst"
    IN  CASE opcode = \b0110111 -> "LUI"
          [] opcode = \b0010111 -> "AUIPC"
          [] opcode = \b1101111 -> "JAL"
          [] opcode = \b1100111 -> By3(0 :> "JALR")
          [] opcode = \b1100011 ->
                By3(0 :> "BEQ" @@ 1 :> "BNE" @@ 4 :> "BLT" @@ 5 :> "BGE" @@ 6 :> "BLTU" @@ 7 :> "BGEU")
          [] opcode = \b0000011 ->
                By3(0 :> "LB" @@ 1 :> "LH" @@ 2 :> "LW" @@ 4 :> "LBU" @@ 5 :> "LHU")
          [] opcode = \b0100011 -> By3(0 :> "SB" @@ 1 :> "SH" @@ 2 :> "SW")
          [] opcode = \b0010011 /\ f3 \in {1, 5} ->
                By37(<<1, 0>> :> "SLLI" @@ <<5, 0>> :> "SRLI" @@ <<5, \b0100000>> :> "SRAI")
          [] opcode = \b0010011 ->
                By3(0 :> "ADDI" @@ 2 :> "SLTI" @@ 3 :> "SLTIU" @@ 4 :> "XORI" @@ 6 :> "ORI" @@ 7 :> "ANDI")
          [] opcode = \b0110011 ->
                By37(<<0, 0>> :> "ADD" @@ <<0, \b0100000>> :> "SUB" @@ <<1, 0>> :> "SLL"
                     @@ <<2, 0>> :> "SLT" @@ <<3, 0>> :> "SLTU" @@ <<4, 0>> :> "XOR"
                     @@ <<5, 0>> :> "SRL" @@ <<5, \b0100000>> :> "SRA" @@ <<6, 0>> :> "OR"
                     @@ <<7, 0>> :> "AND")
          [] opcode = \b0001111 -> "IGNORE"
          [] opcode = \b1110011 ->
                IF f3 = 0
                THEN IF FieldOf(w, 7, 25) = 0 THEN "ECALL" ELSE "UnknownInst"
                ELSE IF f3 = 4 THEN "UnknownInst" ELSE "IGNORE"
          [] OTHER -> "UnknownInst"

\* C8: decode returns UnknownInst for every word whose (opcode, funct3,
\* funct7) combination the encoding table does not list, and for a listed
\* combination the listed variant with rd = bits[11:7], rs1 = bits[19:15]
\* and rs2 = bits[24:20].
C8_DecodeTable ==
    last.op = "decode" =>
        LET w == last.args[1]
        IN  IF Listed(w) = "UnknownInst" THEN last.res = UnknownInst
            ELSE /\ IsOk(last.res)
                 /\ Val(last.res).op = Listed(w)
                 /\ "rd" \in DOMAIN Val(last.res) => Val(last.res).rd = FieldOf(w, 7, 5)
                 /\ "rs1" \in DOMAIN Val(last.res) => Val(last.res).rs1 = FieldOf(w, 15, 5)
                 /\ "rs2" \in DOMAIN Val(last.res) => Val(last.res).rs2 = FieldOf(w, 20, 5)

\* The ISA immediates of the word w: the scattered bits in their places,
\* bit 31 of w in every higher place.
IsaImmI(w) == FromBits([i \in 0..31 |-> IF i <= 10 THEN Bit(w, 20 + i) ELSE Bit(w, 31)])

IsaImmS(w) ==
    FromBits([i \in 0..31 |->
        IF i <= 4 THEN Bit(w, 7 + i)
        ELSE IF i <= 10 THEN Bit(w, 20 + i)
        ELSE Bit(w, 31)])

IsaImmB(w) ==
    FromBits([i \in 0..31 |->
        IF i = 0 THEN 0
        ELSE IF i <= 4 THEN Bit(w, 7 + i)
        ELSE IF i <= 10 THEN Bit(w, 20 + i)
        ELSE IF i = 11 THEN Bit(w, 7)
        ELSE Bit(w, 31)])

IsaImmJ(w) ==
    FromBits([i \in 0..31 |->
        IF i = 0 THEN 0
        ELSE IF i <= 10 THEN Bit(w, 20 + i)
        ELSE IF i = 11 THEN Bit(w, 20)
        ELSE IF i <= 19 THEN Bit(w, i)
        ELSE Bit(w, 31)])

IFamily == {"JALR", "LB", "LH", "LW", "LBU", "LHU", "ADDI", "SLTI", "SLTIU", "XORI", "ORI", "ANDI"}

SFamily == {"SB", "SH", "SW"}

BFamily == {"BEQ", "BNE", "BLT", "BGE", "BLTU", "BGEU"}

\* C9: the immediate decode stores for an I, S, B or J instruction, sign
\* extended as the executor does from width 12, 12, 13 or 21, is the ISA
\* immediate of the word.
C9_Immediates ==
    (last.op = "decode" /\ IsOk(last.res)) =>
        LET w == last.args[1]
            inst == Val(last.res)
        IN  /\ inst.op \in IFamily => sign_extend(12, inst.imm) = IsaImmI(w)
            /\ inst.op \in SFamily => sign_extend(12, inst.imm) = IsaImmS(w)
            /\ inst.op \in BFamily => sign_extend(13, inst.imm) = IsaImmB(w)
            /\ inst.op = "JAL" => sign_extend32(21, inst.imm) = IsaImmJ(w)

\* bne x1, x2, -4 was decoded: bits 31 and 7 of the word are set, and the
\* immediate extends to 0xFFFFFFFC.
C9_Witness ==
    /\ last.op = "decode"
    /\ last.args = <<EncS(\b1100011, 1, 1, 2, \h7F, \b11101)>>
    /\ IsOk(last.res)
    /\ Val(last.res).op = "BNE"
    /\ sign_extend(13, Val(last.res).imm) = U32(65535, 65532)

-----------------------------------------------------------------------------
(* The executor on its own: one instruction is executed on a State whose    *)
(* PC, x1 and x2 a caller has set.                                          *)

ExecPcs == {Zero32, U32(0, \h40), U32(65535, 65532)}

ExecX1 == {U32(0, 7), U32(\h8000, 0), U32_MAX, U32(\hDEAD, \hBEEF), U32(\h7FFF, 65535)}

ExecX2 == {U32(0, 7), U32(0, 8), U32(0, 32), U32(\h8000, 0), U32_MAX, U32(\hDEAD, \hBEEF)}

ExecInit ==
    /\ M = U32(0, MemSize)
    /\ overflow_checks \in BOOLEAN
    /\ \E pc0 \in ExecPcs, x1 \in ExecX1, x2 \in ExecX2 :
          state = [StateDefault EXCEPT !.pc = pc0, !.registers[2] = x1, !.registers[3] = x2]
    /\ mode = "idle"
    /\ cycles = 0
    /\ word = Zero32
    /\ last = NoCall
    /\ steps = 0

\* inst.execute(&mut state)
Executed(inst) ==
    /\ LET x == execute(inst, state)
       IN  /\ state' = x.st
           /\ last' = [op |-> "execute", args |-> <<inst>>, res |-> x.res]
           /\ mode' = IF x.res.kind = "Panic" THEN "aborted" ELSE mode
    /\ steps' = 1
    /\ UNCHANGED <<M, overflow_checks, cycles, word>>

\* JAL with offsets +8 and -4, as decode stores them.
ExecJal ==
    /\ steps = 0
    /\ \E rd \in {0, 1, 3, 30, 31}, imm \in {U32(0, 8), U32(\h1F, \hFFFC)} :
          Executed([op |-> "JAL", rd |-> rd, imm |-> imm])

ExecJalr ==
    /\ steps = 0
    /\ \E rd \in {0, 1, 3, 30, 31}, rs1 \in {0, 1, 2, 31}, imm \in {0, 5, \hFFF} :
          Executed([op |-> "JALR", rd |-> rd, rs1 |-> rs1, imm |-> imm])

\* Branches with offsets +8 and -4, as decode stores them.
ExecBranch ==
    /\ steps = 0
    /\ \E op \in BFamily, rs1 \in {1, 2, 31}, rs2 \in {0, 1, 2}, imm \in {8, \h1FFC} :
          Executed([op |-> op, rs1 |-> rs1, rs2 |-> rs2, imm |-> imm])

\* SRAI x3, x1, shamt and SRA x3, x1, x2.
ExecShift ==
    /\ steps = 0
    /\ \E inst \in {[op |-> "SRAI", rd |-> 3, rs1 |-> 1, shamt |-> shamt] : shamt \in {0, 1, 15, 31}}
                  \cup {[op |-> "SRA", rd |-> 3, rs1 |-> 1, rs2 |-> 2]} :
          Executed(inst)

ExecNext ==
    \/ ExecJal
    \/ ExecJalr
    \/ ExecBranch
    \/ ExecShift

ExecSpec == ExecInit /\ [][ExecNext]_vars

-----------------------------------------------------------------------------
(* Properties of the executor, checked under ExecSpec. *)

\* The step just taken executed an instruction whose op is in ops.
JustExecuted(ops) == steps' = steps + 1 /\ last'.op = "execute" /\ last'.args[1].op \in ops

\* C11: JAL and JALR with rd in 1..31 succeed for every pre-execution PC and
\* leave (pc + 4) modulo 2^32 in rd, every other register unchanged.
C11_LinkRegister ==
    [][(JustExecuted({"JAL", "JALR"}) /\ last'.args[1].rd \in 1..31) =>
          LET rd == last'.args[1].rd
          IN  /\ IsOk(last'.res)
              /\ get_r(state', rd) = Ok(wrapping_add(get_pc(state), U32(0, 4)))
              /\ \A j \in (0..31) \ {rd} : get_r(state', j) = get_r(state, j)]_vars

\* `a as i32`: the two's-complement value of a word.
AsI32(a) == IF a[1] >= 32768 THEN (a[1] - Half) * Half + a[2] ELSE a[1] * Half + a[2]

\* The w-bit value v extended to 32 bits with copies of its bit w-1.
SignExtended(v, w) ==
    FromBits([i \in 0..31 |-> IF i < w - 1 THEN Bit(v, i) ELSE Bit(v, w - 1)])

\* The comparison of a branch instruction, on the values of rs1 and rs2.
BranchHolds(op, a, b) ==
    CASE op = "BEQ" -> a = b
      [] op = "BNE" -> a # b
      [] op = "BLT" -> AsI32(a) < AsI32(b)
      [] op = "BGE" -> AsI32(a) >= AsI32(b)
      [] op = "BLTU" -> Lt32(a, b)
      [] op = "BGEU" -> ~Lt32(a, b)

\* C12: a branch returns Some(pc + sign_extend(imm, 13)) modulo 2^32 exactly
\* when its comparison of rs1 and rs2 holds and None otherwise, and modifies
\* no register and no memory byte.
C12_Branches ==
    [][JustExecuted(BFamily) =>
          LET i == last'.args[1]
          IN  /\ IsOk(last'.res)
              /\ Val(last'.res) =
                    IF BranchHolds(i.op, Val(get_r(state, i.rs1)), Val(get_r(state, i.rs2)))
                    THEN Some(wrapping_add(get_pc(state), SignExtended(AsU32(i.imm), 13)))
                    ELSE None
              /\ state' = state]_vars

\* The arithmetic right shift of v by s, 0 <= s <= 31, bit by bit: bit k of
\* the result is bit k+s of v, and bit 31 of v where k+s exceeds 31.
ArithShifted(v, s) ==
    FromBits([k \in 0..31 |-> IF k + s <= 31 THEN Bit(v, k + s) ELSE Bit(v, 31)])

\* C14: SRAI and SRA leave in rd the arithmetic right shift of rs1 by the
\* shift operand modulo 32: bit 31 is that of rs1, the top bits are copies
\* of it, and a shift by 0 modulo 32 gives rs1 itself.
C14_ArithmeticShift ==
    [][JustExecuted({"SRAI", "SRA"}) =>
          LET i == last'.args[1]
              v == Val(get_r(state, i.rs1))
              s == IF i.op = "SRAI" THEN i.shamt % 32
                   ELSE FieldOf(Val(get_r(state, i.rs2)), 0, 5)
              out == get_r(state', i.rd)
          IN  /\ IsOk(last'.res)
              /\ out = Ok(ArithShifted(v, s))
              /\ Bit(Val(out), 31) = Bit(v, 31)
              /\ \A k \in (32 - s)..31 : Bit(Val(out), k) = Bit(v, 31)
              /\ s = 0 => Val(out) = v]_vars

\* SRA x3, x1, x2 ran with x1 = 0x80000000 and x2 = 0xDEADBEEF, a shift by
\* 15: x3 holds 0xFFFF0000.
C14_Witness ==
    /\ last.op = "execute"
    /\ last.args = <<[op |-> "SRA", rd |-> 3, rs1 |-> 1, rs2 |-> 2]>>
    /\ get_r(state, 1) = Ok(U32(\h8000, 0))
    /\ get_r(state, 2) = Ok(U32(\hDEAD, \hBEEF))
    /\ get_r(state, 3) = Ok(U32(65535, 0))

-----------------------------------------------------------------------------
(* The signed comparisons on their own: each is applied to two words. *)

\* Words around the sign boundary and around zero.
CmpWords ==
    { Zero32, U32(0, 1), U32(0, 7), U32(\h7FFF, 65535), U32(\h8000, 0), U32(\h8000, 1),
      U32(\hDEAD, \hBEEF), U32(65535, 65534), U32_MAX }

CmpInit ==
    /\ M = U32(0, MemSize)
    /\ overflow_checks = TRUE
    /\ state = StateDefault
    /\ mode = "idle"
    /\ cycles = 0
    /\ word \in CmpWords
    /\ last = NoCall
    /\ steps = 0

\* signed_cmp_lt(word, b)
SignedCmpLt ==
    /\ steps = 0
    /\ \E b \in CmpWords :
          last' = [op |-> "signed_cmp_lt", args |-> <<word, b>>, res |-> Ok(signed_cmp_lt(word, b))]
    /\ steps' = 1
    /\ UNCHANGED <<M, overflow_checks, state, mode, cycles, word>>

\* signed_cmp_gt(word, b)
SignedCmpGt ==
    /\ steps = 0
    /\ \E b \in CmpWords :
          last' = [op |-> "signed_cmp_gt", args |-> <<word, b>>, res |-> Ok(signed_cmp_gt(word, b))]
    /\ steps' = 1
    /\ UNCHANGED <<M, overflow_checks, state, mode, cycles, word>>

CmpNext ==
    \/ SignedCmpLt
    \/ SignedCmpGt

CmpSpec == CmpInit /\ [][CmpNext]_vars

\* C13: signed_cmp_lt(a, b) is (a as i32) < (b as i32), and signed_cmp_gt(a, b)
\* is (a as i32) >= (b as i32), the negation of signed_cmp_lt(a, b).
C13_SignedComparisons ==
    /\ last.op = "signed_cmp_lt" =>
            Val(last.res) = (AsI32(last.args[1]) < AsI32(last.args[2]))
    /\ last.op = "signed_cmp_gt" =>
            /\ Val(last.res) = (AsI32(last.args[1]) >= AsI32(last.args[2]))
            /\ Val(last.res) = ~signed_cmp_lt(last.args[1], last.args[2])

\* 0x80000000 was found less than 1, though it is the greater as unsigned.
C13_Witness ==
    /\ last.op = "signed_cmp_lt"
    /\ last.args = <<U32(\h8000, 0), U32(0, 1)>>
    /\ last.res = Ok(TRUE)

-----------------------------------------------------------------------------
(* Further properties of the machine loop, checked under LoopSpec. *)

\* C15: a cycle whose instruction writes a register and names x0 as its
\* destination completes without error, changes no register, and ends with
\* the PC the same instruction gives with another destination (here x5).
C15_DestinationX0 ==
    [][(/\ JustCycled
        /\ IsOk(fetch_decode(state))
        /\ "rd" \in DOMAIN Val(fetch_decode(state))
        /\ Val(fetch_decode(state)).rd = 0
        /\ LET other == execute([Val(fetch_decode(state)) EXCEPT !.rd = 5], state)
           IN  /\ IsOk(other.res)
               /\ IsOk(advance_pc(other.st, get_pc(state), Val(other.res)).res)) =>
          LET other == execute([Val(fetch_decode(state)) EXCEPT !.rd = 5], state)
          IN  /\ last'.res = OkUnit
              /\ state'.registers = state.registers
              /\ get_pc(state') =
                    get_pc(advance_pc(other.st, get_pc(state), Val(other.res)).st)]_vars

\* The address rs1 + sign_extend(imm, 12) of the load or store i in st.
AccessAddr(i, st) == wrapping_add(Val(get_r(st, i.rs1)), SignExtended(AsU32(i.imm), 12))

\* The store i in st has its first byte in memory and a later byte outside.
PartlyInRange(i, st) ==
    /\ i.op \in {"SH", "SW"}
    /\ IsOk(get_r(st, i.rs1))
    /\ MemIndexInBounds(AccessAddr(i, st))
    /\ ~AccessInside(AccessAddr(i, st), IF i.op = "SH" THEN 2 ELSE 4)

\* C17: a cycle that ends in an error leaves PC, registers and memory as
\* they were at its start, and a 16- or 32-bit store with only some of its
\* bytes in range writes none of them.
C17_ErrorLeavesState ==
    [][JustCycled =>
          /\ last'.res.kind = "Err" => state' = state
          /\ (IsOk(fetch_decode(state)) /\ PartlyInRange(Val(fetch_decode(state)), state)) =>
                state' = state]_vars

\* C18: bit 0 of PC is 0 in every state of the machine loop.
C18_PcEven == Bit(get_pc(state), 0) = 0

\* A JALR whose rs1 + imm was 0xFFFFFFFF completed its cycle: PC is
\* 0xFFFFFFFE, even and not a multiple of 4.
C18_Witness ==
    /\ last.op = "run"
    /\ last.res = OkUnit
    /\ cycles >= 1
    /\ get_pc(state) = U32(65535, 65534)

-----------------------------------------------------------------------------
(* A further property of the executor, checked under ExecSpec. *)

\* The word w with bit 0 cleared.
Bit0Cleared(w) == FromBits([k \in 0..31 |-> IF k = 0 THEN 0 ELSE Bit(w, k)])

\* C16: the next PC a JALR returns is (r + sign_extend(imm, 12)) modulo 2^32
\* with bit 0 cleared, r being the value of rs1 before the instruction, also
\* when rd is rs1.
C16_JalrTarget ==
    [][(JustExecuted({"JALR"}) /\ IsOk(last'.res)) =>
          Val(last'.res) = Some(Bit0Cleared(AccessAddr(last'.args[1], state)))]_vars

\* JALR x1, 0(x1) ran at PC 0 with x1 = 0xFFFFFFFF: the target is
\* 0xFFFFFFFE and x1 now holds the link, 4.
C16_Witness ==
    /\ last.op = "execute"
    /\ last.args = <<[op |-> "JALR", rd |-> 1, rs1 |-> 1, imm |-> 0]>>
    /\ last.res = Ok(Some(U32(65535, 65534)))
    /\ get_pc(state) = Zero32
    /\ get_r(state, 1) = Ok(U32(0, 4))

====
